---------------------------- MODULE Spec2Model ----------------------------
(***************************************************************************)
(* Model of OlgaLalakulich_pipeline_analysis.py: rectangular boxes on a    *)
(* pipe (class Rect) and the three routines that report the overlapping   *)
(* pairs of an "old" and a "new" collection of boxes:                      *)
(*   greedy_overlap_between_two, overlap_between_two (sweep with a queue), *)
(*   overlap_between_two_left_right (two sorted indexes and bisect).       *)
(*                                                                         *)
(* Lengths are in metres and angles in degrees, all integers here.  The    *)
(* code halves widths (width/2.); the model keeps every angle that the     *)
(* code halves in doubled units instead, so that the arithmetic is exact:  *)
(* the field midangle holds 2*midangle of the code, taken modulo 2*360.    *)
(* For integer arguments every value the code computes is a multiple of    *)
(* 0.5 below 1024, which its floats hold exactly; arguments with a         *)
(* fractional part, where float rounding can matter, are not modelled.     *)
(***************************************************************************)
EXTENDS Integers, Sequences, FiniteSets, TLC

VARIABLES
    \* ---- class Rect used on its own
    rects,          \* the boxes constructed so far, in order of construction
    ids,            \* Rect._ids: the next value of the class-wide counter
    ctor,           \* the last call of Rect.__init__ and its outcome
    call,           \* the last call of Rect.overlap_with and its result
    \* ---- the inputs of a matcher
    old, new,
    \* ---- the matcher that was called, its position and its locals
    matcher, pc, idx, rect, overlap_set,
    list1, list2, q2,                       \* overlap_between_two
    npop, nappend, npopleft,                \* how often list2.pop, q2.append, q2.popleft took each new box
    nsteps,                                 \* loop iterations and loop exits of overlap_between_two so far
    old_left, left_edges, old_right, right_edges, candidates_set,  \* overlap_between_two_left_right
    \* ---- what the matcher returned, and what it returns with the roles swapped
    out, swapped

vars == <<rects, ids, ctor, call, old, new, matcher, pc, idx, rect, overlap_set,
          list1, list2, q2, npop, nappend, npopleft, nsteps,
          old_left, left_edges, old_right, right_edges, candidates_set, out, swapped>>

rectVars  == <<rects, ids, ctor, call>>
inputVars == <<old, new>>
runVars   == <<matcher, pc, idx, rect, overlap_set>>
sweepVars == <<list1, list2, q2, npop, nappend, npopleft, nsteps>>
indexVars == <<old_left, left_edges, old_right, right_edges, candidates_set>>
retVars   == <<out, swapped>>

-----------------------------------------------------------------------------
(* Bounds of the model *)

\* longitudinal coordinates of the boxes lie in 0..MaxCoord
MaxCoord == 2
\* the old and the new collection hold at most MaxBoxes boxes together
MaxBoxes == 3

(* Constants of the program *)
Period == 360
HalfTurn == 180

None == [none |-> TRUE]

-----------------------------------------------------------------------------
(* Helpers on sequences *)

Range(s) == {s[i] : i \in DOMAIN s}

RECURSIVE Reversed(_)
Reversed(s) == IF s = <<>> THEN <<>> ELSE Append(Reversed(Tail(s)), Head(s))

Abs(x) == IF x < 0 THEN -x ELSE x

-----------------------------------------------------------------------------
(* class Rect *)

\* the three assert statements of Rect.__init__
RectAsserts(L, length, B, width) ==
    /\ 0 <= B /\ B <= Period
    /\ length > 0
    /\ 0 <= width /\ width <= Period

\* the object Rect.__init__ builds; id is the value drawn from Rect._ids
Rect(L, length, B, width, name, id) ==
    [id       |-> id,
     L        |-> L,
     R        |-> L + length,
     B        |-> B,
     width    |-> width,
     midangle |-> (2 * B + width) % (2 * Period),
     name     |-> IF name = "" THEN "rect" \o ToString(id) ELSE name]

to_the_left_of(self, another) == self.R <= another.L

to_the_right_of(self, another) == self.L >= another.R

overlap_along_circumferential_naive(self, another) ==
    Abs(self.midangle - another.midangle) < self.width + another.width

overlap_along_circumferential_signed(self, another) ==
    ((self.midangle - another.midangle) % (2 * Period)) < self.width + another.width

\* dist_midangles and both sides of the comparison are doubled
overlap_along_circumferential(self, another) ==
    LET dist_midangles ==
            Abs(((self.midangle - another.midangle + 2 * HalfTurn) % (2 * Period))
                - 2 * HalfTurn)
    IN  dist_midangles < self.width + another.width

overlap_with(self, another) ==
    /\ ~ to_the_left_of(self, another)
    /\ ~ to_the_right_of(self, another)
    /\ overlap_along_circumferential(self, another)

-----------------------------------------------------------------------------
(* Rect on its own: boxes are constructed and compared *)

\* arguments tried for the bottom angle and the width, valid and invalid
BottomArgs == {-5, 0, 5, 180, 350, 360, 365}
WidthArgs  == {-10, 0, 10, 15, 20, 180, 360, 370}

RectInit ==
    /\ rects = <<>>
    /\ ids = 1
    /\ ctor = None
    /\ call = None
    /\ old = <<>> /\ new = <<>>
    /\ matcher = "none" /\ pc = "idle" /\ idx = 0 /\ rect = None /\ overlap_set = {}
    /\ list1 = <<>> /\ list2 = <<>> /\ q2 = <<>>
    /\ npop = <<>> /\ nappend = <<>> /\ npopleft = <<>> /\ nsteps = 0
    /\ old_left = <<>> /\ left_edges = <<>> /\ old_right = <<>> /\ right_edges = <<>>
    /\ candidates_set = {}
    /\ out = None /\ swapped = None

\* Rect(L, length, B, width): a failed assert raises and nothing is built
Construct(L, length, B, width) ==
    /\ Len(rects) < 2
    /\ IF ctor = None THEN TRUE ELSE ctor.ok
    /\ IF RectAsserts(L, length, B, width)
       THEN /\ rects' = Append(rects, Rect(L, length, B, width, "", ids))
            /\ ids' = ids + 1
            /\ ctor' = [L |-> L, length |-> length, B |-> B, width |-> width, ok |-> TRUE]
       ELSE /\ ctor' = [L |-> L, length |-> length, B |-> B, width |-> width, ok |-> FALSE]
            /\ UNCHANGED <<rects, ids>>
    /\ UNCHANGED <<call, inputVars, runVars, sweepVars, indexVars, retVars>>

\* rects[i].overlap_with(rects[j]), once the two boxes exist
CallOverlapWith(i, j) ==
    /\ Len(rects) = 2 /\ call = None
    /\ call' = [self |-> rects[i], another |-> rects[j],
                result |-> overlap_with(rects[i], rects[j])]
    /\ UNCHANGED <<rects, ids, ctor, inputVars, runVars, sweepVars, indexVars, retVars>>

RectNext ==
    \/ \E L \in 0..(MaxCoord - 1) : \E length \in 0..(MaxCoord - L) :
         \E B \in BottomArgs : \E width \in WidthArgs : Construct(L, length, B, width)
    \/ \E i \in 1..2 : \E j \in 1..2 : CallOverlapWith(i, j)

RectSpec == RectInit /\ [][RectNext]_vars

-----------------------------------------------------------------------------
(* What the geometry means, independently of the code's formulas *)

\* the longitudinal intervals [L, R] share a piece of nonzero length
LongitudinalMeet(a, b) ==
    \E x \in 0..(MaxCoord + 1) : a.L <= x /\ x + 1 <= a.R /\ b.L <= x /\ x + 1 <= b.R

\* degree cell [k, k+1] lies on the arc that starts at B and runs width degrees
OnArc(r, k) == ((k - r.B) % Period) < r.width

\* the arcs [B, B + width] modulo 360 share a piece of nonzero length
ArcsMeet(a, b) == \E k \in 0..(Period - 1) : OnArc(a, k) /\ OnArc(b, k)

\* a box as the specification admits it
ValidBox(r) == r.L < r.R /\ 0 <= r.B /\ r.B < Period /\ 0 < r.width /\ r.width <= Period

-----------------------------------------------------------------------------
(* Claims about Rect *)

C6_InvalidGeometryRejected ==
    (ctor # None /\ (\/ ctor.length <= 0
                     \/ ~ (0 < ctor.width /\ ctor.width <= Period)
                     \/ ~ (0 <= ctor.B /\ ctor.B < Period)))
        => ~ ctor.ok

-----------------------------------------------------------------------------
(* Library routines the matchers call *)

sorted_unsorted(s, key) == s

\* sorted(s, key = lambda elem: elem.<key>): stable, by insertion of each
\* element behind the elements whose key is not greater; key names the field
RECURSIVE sorted(_, _)
sorted(s, key) ==
    IF s = <<>> THEN <<>>
    ELSE LET init == sorted(SubSeq(s, 1, Len(s) - 1), key)
             x    == s[Len(s)]
             k    == Cardinality({i \in DOMAIN init : init[i][key] <= x[key]})
         IN  SubSeq(init, 1, k) \o <<x>> \o SubSeq(init, k + 1, Len(init))

\* sorted(s, key = ..., reverse = True): descending, equal keys keep their order
sorted_reverse(s, key) == Reversed(sorted(Reversed(s), key))

\* bisect.bisect_left(a, x, lo, hi) with 0-based positions
RECURSIVE bisect_left(_, _, _, _)
bisect_left(a, x, lo, hi) ==
    IF lo < hi
    THEN LET mid == (lo + hi) \div 2
         IN  IF a[mid + 1] < x THEN bisect_left(a, x, mid + 1, hi)
                               ELSE bisect_left(a, x, lo, mid)
    ELSE lo

bisect_right_as_left(a, x, lo, hi) == bisect_left(a, x, lo, hi)

\* bisect.bisect_right(a, x, lo, hi) with 0-based positions
RECURSIVE bisect_right(_, _, _, _)
bisect_right(a, x, lo, hi) ==
    IF lo < hi
    THEN LET mid == (lo + hi) \div 2
         IN  IF x < a[mid + 1] THEN bisect_right(a, x, lo, mid)
                               ELSE bisect_right(a, x, mid + 1, hi)
    ELSE lo

-----------------------------------------------------------------------------
(* greedy_overlap_between_two *)

greedy_overlap_between_two(o, n) ==
    {<<o[i].name, n[j].name>> :
        <<i, j>> \in {p \in (DOMAIN o) \X (DOMAIN n) : overlap_with(o[p[1]], n[p[2]])}}

-----------------------------------------------------------------------------
(* overlap_between_two: the pieces of its loop *)

\* the test of the eviction loop: the queue is not empty and its front is to
\* the left of rect
EvictCond(q, r) == IF q = <<>> THEN FALSE ELSE to_the_left_of(q[1], r)

\* the branch the admission loop takes on the last element of list2
AdmitCase(l2, r) ==
    IF l2 = <<>> THEN "exit"
    ELSE IF to_the_left_of(l2[Len(l2)], r) THEN "discard"
    ELSE IF to_the_right_of(l2[Len(l2)], r) THEN "break"
    ELSE "append"

\* the pairs the loop over the queue adds for rect
QueuePairs(r, q) ==
    {<<r.name, elem.name>> : elem \in {e \in Range(q) : overlap_along_circumferential(r, e)}}

Pop(l) == SubSeq(l, 1, Len(l) - 1)

RECURSIVE EvictLoop(_, _)
EvictLoop(q, r) == IF EvictCond(q, r) THEN EvictLoop(Tail(q), r) ELSE q

RECURSIVE AdmitLoop(_, _, _)
AdmitLoop(l2, q, r) ==
    CASE AdmitCase(l2, r) = "discard" -> AdmitLoop(Pop(l2), q, r)
      [] AdmitCase(l2, r) = "append"  -> AdmitLoop(Pop(l2), Append(q, l2[Len(l2)]), r)
      [] OTHER -> [list2 |-> l2, q2 |-> q]

RECURSIVE SweepLoop(_, _, _, _, _)
SweepLoop(l1, i, l2, q, acc) ==
    IF i > Len(l1) THEN acc
    ELSE LET r  == l1[i]
             qa == EvictLoop(q, r)
             ad == AdmitLoop(l2, qa, r)
         IN  SweepLoop(l1, i + 1, ad.list2, ad.q2, acc \cup QueuePairs(r, ad.q2))

\* overlap_between_two(o, n, visualize=False) as a function of its arguments
overlap_between_two(o, n) ==
    SweepLoop(sorted(o, "L"), 1, sorted_reverse(n, "L"), <<>>, {})

-----------------------------------------------------------------------------
(* overlap_between_two_left_right: the pieces of its loop *)

\* candidates_set for the box r, given the two sorted copies of old
Candidates(ol, le, orr, re, r) ==
    LET il == bisect_left(le, r.R, 0, Len(le))
        ir == bisect_right(re, r.L, 0, Len(re))
    IN  Range(SubSeq(ol, 1, il)) \cap Range(SubSeq(orr, ir + 1, Len(orr)))

\* the pairs the loop over candidates_set adds for the box r
CandidatePairs(r, cands) ==
    {<<r.name, elem.name>> : elem \in {e \in cands : overlap_along_circumferential(r, e)}}

edges(s, key) == [i \in DOMAIN s |-> s[i][key]]

\* overlap_between_two_left_right(o, n) as a function of its arguments
overlap_between_two_left_right(o, n) ==
    LET ol  == sorted(o, "L")
        orr == sorted(o, "R")
    IN  UNION {CandidatePairs(n[k], Candidates(ol, edges(ol, "L"), orr, edges(orr, "R"), n[k]))
               : k \in DOMAIN n}

-----------------------------------------------------------------------------
(* The matchers at work on an old and a new collection *)

\* the longitudinal intervals and the arcs (bottom angle, width) of the inputs
Intervals == {<<l, r>> \in (0..MaxCoord) \X (0..MaxCoord) : l < r}
OldArcs   == {<<350, 20>>, <<180, 10>>}
NewArcs   == {<<5, 10>>, <<180, 10>>}

\* all collections of n boxes named prefix1, prefix2, ..., built after `before` boxes
Collections(prefix, n, before, arcs) ==
    {[i \in 1..n |-> Rect(g[i][1][1], g[i][1][2] - g[i][1][1], g[i][2][1], g[i][2][2],
                          prefix \o ToString(i), before + i)]
        : g \in [1..n -> Intervals \X arcs]}

Zeros == [b \in Range(new) |-> 0]

Init ==
    /\ \E n \in 0..MaxBoxes : \E m \in 0..(MaxBoxes - n) :
          /\ old \in Collections("o", n, 0, OldArcs)
          /\ new \in Collections("n", m, n, NewArcs)
          /\ ids = n + m + 1
    /\ rects = <<>> /\ ctor = None /\ call = None
    /\ matcher = "none" /\ pc = "start" /\ idx = 0 /\ rect = None /\ overlap_set = {}
    /\ list1 = <<>> /\ list2 = <<>> /\ q2 = <<>>
    /\ npop = Zeros /\ nappend = Zeros /\ npopleft = Zeros /\ nsteps = 0
    /\ old_left = <<>> /\ left_edges = <<>> /\ old_right = <<>> /\ right_edges = <<>>
    /\ candidates_set = {}
    /\ out = None /\ swapped = None

\* ---- greedy_overlap_between_two(old, new)
CallGreedy ==
    /\ pc = "start"
    /\ matcher' = "greedy_overlap_between_two"
    /\ overlap_set' = greedy_overlap_between_two(old, new)
    /\ out' = overlap_set'
    /\ pc' = "done"
    /\ UNCHANGED <<rectVars, inputVars, idx, rect, sweepVars, indexVars, swapped>>

\* ---- overlap_between_two(old, new, visualize=False)
\* the two sorts and the empty overlap_set and q2
Sort ==
    /\ pc = "start"
    /\ matcher' = "overlap_between_two"
    /\ list1' = sorted(old, "L")
    /\ list2' = sorted_reverse(new, "L")
    /\ overlap_set' = {}
    /\ q2' = <<>>
    /\ idx' = 1
    /\ pc' = "for"
    /\ UNCHANGED <<rectVars, inputVars, rect, npop, nappend, npopleft, nsteps, indexVars, retVars>>

\* for rect in list1: the next rect
ForRect ==
    /\ pc = "for" /\ idx <= Len(list1)
    /\ rect' = list1[idx]
    /\ pc' = "evict"
    /\ nsteps' = nsteps + 1
    /\ UNCHANGED <<rectVars, inputVars, matcher, idx, overlap_set, list1, list2, q2,
                   npop, nappend, npopleft, indexVars, retVars>>

\* list1 is exhausted: return overlap_set
ForReturn ==
    /\ pc = "for" /\ idx > Len(list1)
    /\ out' = overlap_set
    /\ pc' = "done"
    /\ nsteps' = nsteps + 1
    /\ UNCHANGED <<rectVars, inputVars, matcher, idx, rect, overlap_set, list1, list2, q2,
                   npop, nappend, npopleft, indexVars, swapped>>

\* q2[0] is to the left of rect: q2.popleft()
EvictPopleft ==
    /\ pc = "evict" /\ EvictCond(q2, rect)
    /\ q2' = Tail(q2)
    /\ npopleft' = [npopleft EXCEPT ![q2[1]] = @ + 1]
    /\ nsteps' = nsteps + 1
    /\ UNCHANGED <<rectVars, inputVars, runVars, list1, list2, npop, nappend, indexVars, retVars>>

\* q2 is empty or q2[0] is not to the left of rect: the eviction loop ends
EvictBreak ==
    /\ pc = "evict" /\ ~ EvictCond(q2, rect)
    /\ pc' = "admit"
    /\ nsteps' = nsteps + 1
    /\ UNCHANGED <<rectVars, inputVars, matcher, idx, rect, overlap_set, list1, list2, q2,
                   npop, nappend, npopleft, indexVars, retVars>>

\* list2[-1] is to the left of rect: list2.pop()
AdmitDiscard ==
    /\ pc = "admit" /\ AdmitCase(list2, rect) = "discard"
    /\ list2' = Pop(list2)
    /\ npop' = [npop EXCEPT ![list2[Len(list2)]] = @ + 1]
    /\ nsteps' = nsteps + 1
    /\ UNCHANGED <<rectVars, inputVars, runVars, list1, q2, nappend, npopleft, indexVars, retVars>>

AdmitAppend_nopop ==
    /\ pc = "admit" /\ AdmitCase(list2, rect) = "append"
    /\ q2' = Append(q2, list2[Len(list2)])
    /\ nappend' = [nappend EXCEPT ![list2[Len(list2)]] = @ + 1]
    /\ nsteps' = nsteps + 1
    /\ UNCHANGED <<rectVars, inputVars, runVars, list1, list2, npop, npopleft, indexVars, retVars>>

\* list2[-1] is neither to the left nor to the right of rect:
\* elem = list2.pop(); q2.append(elem)
AdmitAppend ==
    /\ pc = "admit" /\ AdmitCase(list2, rect) = "append"
    /\ list2' = Pop(list2)
    /\ q2' = Append(q2, list2[Len(list2)])
    /\ npop' = [npop EXCEPT ![list2[Len(list2)]] = @ + 1]
    /\ nappend' = [nappend EXCEPT ![list2[Len(list2)]] = @ + 1]
    /\ nsteps' = nsteps + 1
    /\ UNCHANGED <<rectVars, inputVars, runVars, list1, npopleft, indexVars, retVars>>

\* list2 is empty or list2[-1] is to the right of rect: the admission loop ends
AdmitBreak ==
    /\ pc = "admit" /\ AdmitCase(list2, rect) \in {"exit", "break"}
    /\ pc' = "test"
    /\ nsteps' = nsteps + 1
    /\ UNCHANGED <<rectVars, inputVars, matcher, idx, rect, overlap_set, list1, list2, q2,
                   npop, nappend, npopleft, indexVars, retVars>>

\* for elem in q2: the circumferential tests of rect against the queue
TestQueue ==
    /\ pc = "test"
    /\ overlap_set' = overlap_set \cup QueuePairs(rect, q2)
    /\ idx' = idx + 1
    /\ pc' = "for"
    /\ nsteps' = nsteps + 1
    /\ UNCHANGED <<rectVars, inputVars, matcher, rect, list1, list2, q2,
                   npop, nappend, npopleft, indexVars, retVars>>

\* ---- overlap_between_two_left_right(old, new)
\* the two sorted copies of old, their edges, the empty sets
BuildIndexes ==
    /\ pc = "start"
    /\ matcher' = "overlap_between_two_left_right"
    /\ old_left' = sorted(old, "L")
    /\ left_edges' = edges(old_left', "L")
    /\ old_right' = sorted(old, "R")
    /\ right_edges' = edges(old_right', "R")
    /\ overlap_set' = {}
    /\ candidates_set' = {}
    /\ idx' = 1
    /\ pc' = "loop"
    /\ UNCHANGED <<rectVars, inputVars, rect, sweepVars, retVars>>

\* for rect in new: one pass of the loop body
IndexLoop ==
    /\ pc = "loop" /\ idx <= Len(new)
    /\ rect' = new[idx]
    /\ candidates_set' = Candidates(old_left, left_edges, old_right, right_edges, rect')
    /\ overlap_set' = overlap_set \cup CandidatePairs(rect', candidates_set')
    /\ idx' = idx + 1
    /\ UNCHANGED <<rectVars, inputVars, matcher, pc, sweepVars,
                   old_left, left_edges, old_right, right_edges, retVars>>

\* new is exhausted: return overlap_set
IndexReturn ==
    /\ pc = "loop" /\ idx > Len(new)
    /\ out' = overlap_set
    /\ pc' = "done"
    /\ UNCHANGED <<rectVars, inputVars, matcher, idx, rect, overlap_set, sweepVars, indexVars, swapped>>

\* ---- the same matcher called again with old and new in each other's place
CallSwapped ==
    /\ pc = "done"
    /\ swapped' = CASE matcher = "greedy_overlap_between_two" -> greedy_overlap_between_two(new, old)
                    [] matcher = "overlap_between_two" -> overlap_between_two(new, old)
                    [] matcher = "overlap_between_two_left_right" -> overlap_between_two_left_right(new, old)
    /\ pc' = "end"
    /\ UNCHANGED <<rectVars, inputVars, matcher, idx, rect, overlap_set, sweepVars, indexVars, out>>

Next ==
    \/ CallGreedy
    \/ Sort \/ ForRect \/ ForReturn
    \/ EvictPopleft \/ EvictBreak
    \/ AdmitDiscard \/ AdmitAppend \/ AdmitBreak
    \/ TestQueue
    \/ BuildIndexes \/ IndexLoop \/ IndexReturn
    \/ CallSwapped

Spec == Init /\ [][Next]_vars

-----------------------------------------------------------------------------
(* The stepwise matchers return what their functions return *)

StepwiseIsFunction ==
    /\ (pc = "done" /\ matcher = "overlap_between_two") => out = overlap_between_two(old, new)
    /\ (pc = "done" /\ matcher = "overlap_between_two_left_right")
          => out = overlap_between_two_left_right(old, new)

-----------------------------------------------------------------------------
(* Claims about the matchers *)

Sweeping == matcher = "overlap_between_two" /\ pc \in {"for", "evict", "admit", "test", "done", "end"}

ReversedPairs(S) == {<<p[2], p[1]>> : p \in S}

\* the old boxes and the new boxes whose longitudinal intervals meet that of r
MeetsLongitudinally(b, r) == b.L < r.R /\ b.R > r.L

RECURSIVE Total(_, _)
Total(f, S) == IF S = {} THEN 0
               ELSE LET b == CHOOSE x \in S : TRUE IN f[b] + Total(f, S \ {b})

\* C1: overlap_between_two(old, new, visualize=False) returns exactly the set
\* of pairs greedy_overlap_between_two(old, new) returns, whatever the lengths
\* and the order of the left edges.
C1_SweepEqualsGreedy ==
    (pc = "done" /\ matcher = "overlap_between_two")
        => out = greedy_overlap_between_two(old, new)

\* C2: overlap_between_two_left_right(old, new) returns the set of pairs
\* greedy_overlap_between_two(old, new) returns, each pair old name first.
C2_IndexedEqualsGreedy ==
    (pc = "done" /\ matcher = "overlap_between_two_left_right")
        => out = greedy_overlap_between_two(old, new)

\* C3: for each of the three matchers, the result of the call with old and new
\* swapped, each pair reversed, is the result of the call itself.
C3_SwapAndReverse ==
    pc = "end" => ReversedPairs(swapped) = out

\* C7: when the circumferential tests of an old box start, q2 holds exactly the
\* new boxes whose longitudinal interval meets that of the old box; none of
\* q2 is to the left or to the right of it.
C7_QueueIsWindow ==
    (matcher = "overlap_between_two" /\ pc = "test")
        => Range(q2) = {b \in Range(new) : MeetsLongitudinally(b, rect)}

\* C8: for every new box r, candidates_set is exactly the set of old boxes o
\* with o.L < r.R and o.R > r.L, equal left or right edges among old included.
C8_CandidatesExact ==
    (matcher = "overlap_between_two_left_right" /\ pc = "loop" /\ rect # None)
        => candidates_set = {o \in Range(old) : o.L < rect.R /\ o.R > rect.L}

\* candidates were built for a box r while old holds two boxes with the same
\* left edge, one that ends exactly where r starts and one that meets r
C8_Witness ==
    /\ matcher = "overlap_between_two_left_right" /\ pc = "loop" /\ rect # None
    /\ \E o1 \in Range(old) : \E o2 \in Range(old) :
          /\ o1 # o2 /\ o1.L = o2.L
          /\ o1.R = rect.L
          /\ o2 \in candidates_set

\* C9: in one run of overlap_between_two every new box is popped from list2 at
\* most once, appended to q2 at most once and removed from q2 at most once,
\* and is never again in list2 or q2 after it left; list2.pop, q2.append and
\* q2.popleft happen at most 3*m times in all, and the sweep ends: it takes no
\* more than 2*m + 4*n + 1 loop steps.
C9_EachBoxOnce ==
    Sweeping =>
        /\ \A b \in Range(new) : npop[b] <= 1 /\ nappend[b] <= 1 /\ npopleft[b] <= 1
        /\ \A i \in DOMAIN list2 : npop[list2[i]] = 0 /\ nappend[list2[i]] = 0
        /\ \A i \in DOMAIN q2 : npop[q2[i]] = 1 /\ nappend[q2[i]] = 1 /\ npopleft[q2[i]] = 0
        /\ Cardinality(Range(list2)) = Len(list2)
        /\ Cardinality(Range(q2)) = Len(q2)
        /\ Total(npop, Range(new)) + Total(nappend, Range(new)) + Total(npopleft, Range(new))
              <= 3 * Len(new)
        /\ nsteps <= 2 * Len(new) + 4 * Len(old) + 1

\* the sweep has ended and a new box went through list2, q2 and out of q2
C9_Witness ==
    /\ matcher = "overlap_between_two" /\ pc = "done"
    /\ \E b \in Range(new) : npop[b] = 1 /\ nappend[b] = 1 /\ npopleft[b] = 1

\* C10: overlap_between_two misses no overlap: every pair of an old and a new
\* box that overlap is in its result; a new box has left list2 and q2 only if
\* it is to the left of the current old box, and when the admission loop has
\* stopped every box still in list2 is to the right of the current old box.
C10_NoMissedOverlap ==
    /\ (pc = "done" /\ matcher = "overlap_between_two")
          => greedy_overlap_between_two(old, new) \subseteq out
    /\ (matcher = "overlap_between_two" /\ pc \in {"evict", "admit", "test"})
          => \A b \in Range(new) :
                (b \notin Range(list2) /\ b \notin Range(q2)) => to_the_left_of(b, rect)
    /\ (matcher = "overlap_between_two" /\ pc = "test")
          => \A b \in Range(list2) : to_the_right_of(b, rect)

\* the sweep has ended after it dropped a box from list2 that never entered
\* q2, and two boxes overlap
C10_Witness ==
    /\ matcher = "overlap_between_two" /\ pc = "done"
    /\ greedy_overlap_between_two(old, new) # {}
    /\ \E b \in Range(new) : npop[b] = 1 /\ nappend[b] = 0

=============================================================================
